---- MODULE Spec2Model ----
(***************************************************************************)
(* Order management backend: session/credential lifecycle (register,      *)
(* login, refresh, bearer-token gate) and the order status state machine  *)
(* (create, cancel, background progression worker).                       *)
(*                                                                         *)
(* Every request is a process over the shared store.  A process takes one *)
(* step per store round trip (a SELECT, or a flush+COMMIT); the code       *)
(* between two awaits runs in the step of the await that follows it.       *)
(***************************************************************************)
EXTENDS Integers, FiniteSets, Sequences, TLC

\* ------------------------------------------------------------------ bounds
\* Number of register, login and refresh requests, and sub-second resolution
\* of the clock (ticks per second).
MaxRegister == 2
MaxLogin == 2
MaxRotate == 2
TicksPerSec == 2

MaxCreate == 2
MaxCancel == 2
MaxList == 2

RegProcs == 1..MaxRegister
CreateProcs == 1..MaxCreate
CancelProcs == 1..MaxCancel
LoginProcs == 1..MaxLogin
RotProcs == 1..MaxRotate

Emails == {"a@x.io", "b@x.io"}
Names == {"ann", "bob"}
Passwords == {"pw1", "pw2"}

\* ----------------------------------------------------------- configuration
ACCESS_TOKEN_EXPIRE_MINUTES == 15
REFRESH_TOKEN_EXPIRE_DAYS == 7
JWT_SECRET == "secret"

AccessLifeSec == ACCESS_TOKEN_EXPIRE_MINUTES * 60
RefreshLifeSec == REFRESH_TOKEN_EXPIRE_DAYS * 24 * 60 * 60

\* The clock counts ticks.  The instants the model visits: start-up, one
\* second later, one access-token lifetime later, and one tick past one
\* refresh-token lifetime.
Instants ==
    {0, TicksPerSec, AccessLifeSec * TicksPerSec,
     RefreshLifeSec * TicksPerSec + 1}

\* int(datetime.timestamp()): whole seconds of an instant given in ticks.
IntTimestamp(t) == t \div TicksPerSec

\* --------------------------------------------------------------- passwords
NoHash == [salt |-> 0, digest |-> <<0, "">>]

\* bcrypt_context.hash: a salted one-way digest (salt: the hashing request).
hash_password(password, salt) == [salt |-> salt, digest |-> <<salt, password>>]

\* bcrypt_context.verify: recompute the digest with the stored salt.
verify_password(password, hashed) == hashed.digest = <<hashed.salt, password>>

\* ------------------------------------------------------------------ tokens
NoJti == <<"", 0, "">>
NoPayload == [sub |-> 0, email |-> "", type |-> "", exp |-> 0, iat |-> 0, jti |-> NoJti]
NoToken == [payload |-> NoPayload, key |-> ""]

\* A token signed with a key that is not the server's.
ForgedToken ==
    [payload |-> [sub |-> 1, email |-> "a@x.io", type |-> "refresh",
                  exp |-> 2 * RefreshLifeSec, iat |-> 0, jti |-> <<"forged", 0, "">>],
     key |-> "other"]

\* jwt.encode: the payload signed with the key.
JwtEncode(payload, key) == [payload |-> payload, key |-> key]

\* As create_access_token, the refresh flag not looked at.
create_access_tokenAlwaysAccess(id, email, lifeSec, refresh, jti, t) ==
    JwtEncode([sub |-> id,
               email |-> email,
               type |-> "access",
               exp |-> IntTimestamp(t) + lifeSec,
               iat |-> IntTimestamp(t),
               jti |-> jti],
              JWT_SECRET)

\* UserService.create_access_token at clock t; lifeSec: the expiry timedelta.
create_access_token(id, email, lifeSec, refresh, jti, t) ==
    JwtEncode([sub |-> id,
               email |-> email,
               type |-> IF refresh THEN "refresh" ELSE "access",
               exp |-> IntTimestamp(t) + lifeSec,
               iat |-> IntTimestamp(t),
               jti |-> jti],
              JWT_SECRET)

\* As JwtDecode, the exp claim not verified.
JwtDecodeNoExpiry(token, t) ==
    IF token.key # JWT_SECRET
    THEN [ok |-> FALSE, err |-> "InvalidTokenError", payload |-> NoPayload]
    ELSE [ok |-> TRUE, err |-> "", payload |-> token.payload]

\* jwt.decode at clock t: signature first, then exp (expired when exp <= now).
JwtDecode(token, t) ==
    IF token.key # JWT_SECRET
    THEN [ok |-> FALSE, err |-> "InvalidTokenError", payload |-> NoPayload]
    ELSE IF token.payload.exp * TicksPerSec <= t
    THEN [ok |-> FALSE, err |-> "ExpiredSignatureError", payload |-> NoPayload]
    ELSE [ok |-> TRUE, err |-> "", payload |-> token.payload]

\* UserService.decode_token: the payload, or None (NoPayload) on any error.
decode_token(token, t) == JwtDecode(token, t).payload

\* ------------------------------------------------------------------- state
VARIABLES
    now,             \* the clock, in ticks
    users,           \* table users: set of rows
    refresh_tokens,  \* table refresh_tokens: set of rows
    reg,             \* register requests
    login,           \* login requests
    rot,             \* refresh requests
    gate,            \* the last call of get_current_user
    orders,          \* table orders: order id -> row
    create,          \* create-order requests
    cancel,          \* cancel-order requests
    worker,          \* process_order jobs: order id -> job
    listed           \* the calls of get_orders_for_user so far, and the last one

authVars == <<now, users, refresh_tokens, reg, login, rot, gate>>
orderVars == <<orders, create, cancel, worker, listed>>
vars ==
    <<now, users, refresh_tokens, reg, login, rot, gate, orders, create, cancel,
      worker, listed>>

NoUser == [id |-> 0, email |-> "", name |-> "", password |-> NoHash]
NoRow == [id |-> 0, token |-> NoToken, user_id |-> 0, expires_at |-> 0]

IdleReg == [pc |-> "idle", email |-> "", name |-> "", password |-> "", outcome |-> ""]
IdleLogin ==
    [pc |-> "idle", email |-> "", password |-> "", user |-> NoUser,
     access |-> NoToken, expiry |-> 0, refresh |-> NoToken, old |-> NoRow,
     rowcount |-> 0, outcome |-> ""]
IdleRot ==
    [pc |-> "idle", token |-> NoToken, user |-> NoUser,
     entry |-> NoRow, result |-> NoToken, reason |-> ""]
NoOrder == [id |-> 0, user_id |-> 0, product_name |-> "", amount |-> 0, status |-> ""]
IdleCreate == [pc |-> "idle", user_id |-> 0, id |-> 0, result |-> NoOrder]
IdleCancel ==
    [pc |-> "idle", order_id |-> 0, user_id |-> 0, outcome |-> "", result |-> NoOrder]
NoGate == [token |-> NoToken, status |-> "", user |-> NoUser]
NoList == [n |-> 0, user_id |-> 0, status |-> "", writes |-> 0, result |-> {}]

\* select(User).where(User.email == email) ... .first()
UserByEmail(email) ==
    IF \E u \in users : u.email = email
    THEN CHOOSE u \in users : u.email = email
    ELSE NoUser

\* select(User).where(User.id == id) / session.get(User, id)
UserById(id) ==
    IF \E u \in users : u.id = id
    THEN CHOOSE u \in users : u.id = id
    ELSE NoUser

\* users: primary key id, unique email.
UsersInsertOk(row) ==
    \A u \in users : u.id # row.id /\ u.email # row.email

\* As RefreshInsertOk, user_id not declared unique.
RefreshInsertOkUserNotUnique(row) ==
    \A r \in refresh_tokens : r.id # row.id /\ r.token # row.token

\* refresh_tokens: primary key id, unique token, unique user_id.
RefreshInsertOk(row) ==
    \A r \in refresh_tokens :
        r.id # row.id /\ r.token # row.token /\ r.user_id # row.user_id

\* select(RefreshToken).where(RefreshToken.user_id == id) ... .first()
RefreshByUser(id) ==
    IF \E r \in refresh_tokens : r.user_id = id
    THEN CHOOSE r \in refresh_tokens : r.user_id = id
    ELSE NoRow

\* As RefreshByToken, selecting by the token's subject instead of its string.
RefreshByTokenSubject(token) == RefreshByUser(token.payload.sub)

\* select(RefreshToken).where(RefreshToken.token == token) ... .first()
RefreshByToken(token) ==
    IF \E r \in refresh_tokens : r.token = token
    THEN CHOOSE r \in refresh_tokens : r.token = token
    ELSE NoRow

\* session.delete(row); commit: DELETE ... WHERE id = row.id (no row matched
\* is a warning, not an error).
RefreshDelete(row) == {r \in refresh_tokens : r.id # row.id}

\* Tokens that reached a client: login's response and refresh's response.
Delivered ==
    {login[p].access : p \in {q \in LoginProcs : login[q].outcome = "Tokens"}}
    \cup {login[p].refresh : p \in {q \in LoginProcs : login[q].outcome = "Tokens"}}
    \cup {rot[q].result : q \in {x \in RotProcs : rot[x].result # NoToken}}

\* No order request has arrived; the job queue is empty.
OrdersIdle ==
    /\ orders = <<>>
    /\ create = [c \in CreateProcs |-> IdleCreate]
    /\ cancel = [k \in CancelProcs |-> IdleCancel]
    /\ worker = <<>>
    /\ listed = NoList

Init ==
    /\ now = 0
    /\ users = {}
    /\ refresh_tokens = {}
    /\ reg = [r \in RegProcs |-> IdleReg]
    /\ login = [p \in LoginProcs |-> IdleLogin]
    /\ rot = [q \in RotProcs |-> IdleRot]
    /\ gate = NoGate
    /\ OrdersIdle

\* Time passes.
Tick ==
    /\ \E t \in Instants : t > now /\ now' = t
    /\ UNCHANGED <<users, refresh_tokens, reg, login, rot, gate>>
    /\ UNCHANGED orderVars

\* ---------------------------------------------------------------- register
\* As EmailTaken, the existing user never found.
EmailTakenNeverFound(email) == FALSE

\* create_user, lines 190-193: existing_user.scalars().first() is truthy.
EmailTaken(email) == UserByEmail(email) # NoUser

\* create_user, lines 189-195: the check for an existing user.
RegisterCheck(r, name, email, password) ==
    /\ reg[r].pc = "idle"
    /\ IF EmailTaken(email)
       THEN reg' = [reg EXCEPT ![r] =
                [pc |-> "done", email |-> email, name |-> name,
                 password |-> password, outcome |-> "DuplicateEmail"]]
       ELSE reg' = [reg EXCEPT ![r] =
                [pc |-> "insert", email |-> email, name |-> name,
                 password |-> password, outcome |-> ""]]
    /\ UNCHANGED <<now, users, refresh_tokens, login, rot, gate>>
    /\ UNCHANGED orderVars

\* The row create_user builds (id: the uuid default, one per request).
NewUserRow(r) ==
    [id |-> r, email |-> reg[r].email, name |-> reg[r].name,
     password |-> hash_password(reg[r].password, r)]

\* create_user, lines 197-204: add and commit.  A commit that violates a
\* constraint raises IntegrityError, which signup does not catch.
RegisterInsert(r) ==
    /\ reg[r].pc = "insert"
    /\ IF UsersInsertOk(NewUserRow(r))
       THEN /\ users' = users \cup {NewUserRow(r)}
            /\ reg' = [reg EXCEPT ![r].pc = "refresh"]
       ELSE /\ users' = users
            /\ reg' = [reg EXCEPT ![r].pc = "done", ![r].outcome = "IntegrityError"]
    /\ UNCHANGED <<now, refresh_tokens, login, rot, gate>>
    /\ UNCHANGED orderVars

\* create_user, lines 205-207, and signup, routes lines 21-22: session.refresh
\* re-reads the row (no code deletes a user), the user is returned.
RegisterReturn(r) ==
    /\ reg[r].pc = "refresh"
    /\ reg' = [reg EXCEPT
            ![r].pc = "done",
            ![r].outcome = IF UserById(r) # NoUser THEN "User"
                           ELSE "InvalidRequestError"]
    /\ UNCHANGED <<now, users, refresh_tokens, login, rot, gate>>
    /\ UNCHANGED orderVars

\* ------------------------------------------------------------------- login
\* As authenticate_user, the password not verified.
authenticate_userNoVerify(email, password) == UserByEmail(email)

\* authenticate_user, lines 217-229: the user, or None (NoUser).
authenticate_user(email, password) ==
    IF UserByEmail(email) = NoUser THEN NoUser
    ELSE IF ~verify_password(password, UserByEmail(email).password) THEN NoUser
    ELSE UserByEmail(email)

\* As LoginRejected, the response naming the cause of the failure.
LoginRejectedByCause(email, password) ==
    [IdleLogin EXCEPT !.pc = "done", !.email = email, !.password = password,
                      !.outcome = IF UserByEmail(email) = NoUser
                                  THEN "UserNotFound"
                                  ELSE "InvalidCredentials"]

\* login, routes lines 34-38: 401 "Invalid credentials", whatever the cause.
LoginRejected(email, password) ==
    [IdleLogin EXCEPT !.pc = "done", !.email = email, !.password = password,
                      !.outcome = "InvalidCredentials"]

\* login, routes lines 32-40, and create_refresh_token, lines 105-111:
\* authenticate; on failure 401 "Invalid credentials"; else, with no await
\* in between, the access token, the expiry of the refresh-token row and the
\* refresh token, each with its own reading of the clock (now, t2, t3).
LoginAuthenticate(p, email, password) ==
    /\ login[p].pc = "idle"
    /\ IF authenticate_user(email, password) = NoUser
       THEN /\ login' = [login EXCEPT ![p] = LoginRejected(email, password)]
            /\ now' = now
       ELSE \E t2 \in Instants, t3 \in Instants :
            /\ now <= t2
            /\ t2 <= t3
            /\ login' = [login EXCEPT ![p] =
                 [IdleLogin EXCEPT
                    !.pc = "select", !.email = email, !.password = password,
                    !.user = authenticate_user(email, password),
                    !.access = create_access_token(
                        authenticate_user(email, password).id,
                        authenticate_user(email, password).email,
                        AccessLifeSec, FALSE, <<"login", p, "access">>, now),
                    !.expiry = t2 + RefreshLifeSec * TicksPerSec,
                    !.refresh = create_access_token(
                        authenticate_user(email, password).id,
                        authenticate_user(email, password).email,
                        RefreshLifeSec, TRUE, <<"login", p, "refresh">>, t3)]]
            /\ now' = t3
    /\ UNCHANGED <<users, refresh_tokens, reg, rot, gate>>
    /\ UNCHANGED orderVars

\* create_refresh_token, lines 113-116: the select of the user's existing
\* row.
LoginSelectExisting(p) ==
    /\ login[p].pc = "select"
    /\ login' = [login EXCEPT
            ![p].old = RefreshByUser(login[p].user.id),
            ![p].pc = IF RefreshByUser(login[p].user.id) # NoRow
                      THEN "delete" ELSE "insert"]
    /\ UNCHANGED <<now, users, refresh_tokens, reg, rot, gate>>
    /\ UNCHANGED orderVars

\* create_refresh_token, lines 117-119: delete the old row and commit;
\* rowcount: the number of rows the DELETE matched.
LoginDeleteOld(p) ==
    /\ login[p].pc = "delete"
    /\ refresh_tokens' = RefreshDelete(login[p].old)
    /\ login' = [login EXCEPT
            ![p].pc = "insert",
            ![p].rowcount = Cardinality(refresh_tokens)
                            - Cardinality(RefreshDelete(login[p].old))]
    /\ UNCHANGED <<now, users, reg, rot, gate>>
    /\ UNCHANGED orderVars

\* As NewRefreshRow, the access token stored in place of the refresh token.
NewRefreshRowAccessToken(p) ==
    [id |-> p, token |-> login[p].access, user_id |-> login[p].user.id,
     expires_at |-> login[p].expiry]

\* The row create_refresh_token builds (id: the uuid default).
NewRefreshRow(p) ==
    [id |-> p, token |-> login[p].refresh, user_id |-> login[p].user.id,
     expires_at |-> login[p].expiry]

\* create_refresh_token, lines 121-123: add the new row and commit.  A commit
\* that violates a constraint raises IntegrityError out of login.
LoginInsert(p) ==
    /\ login[p].pc = "insert"
    /\ IF RefreshInsertOk(NewRefreshRow(p))
       THEN /\ refresh_tokens' = refresh_tokens \cup {NewRefreshRow(p)}
            /\ login' = [login EXCEPT ![p].pc = "refresh"]
       ELSE /\ refresh_tokens' = refresh_tokens
            /\ login' = [login EXCEPT ![p].pc = "done",
                                      ![p].outcome = "IntegrityError"]
    /\ UNCHANGED <<now, users, reg, rot, gate>>
    /\ UNCHANGED orderVars

\* create_refresh_token, lines 124-127, and login, routes lines 41-51:
\* session.refresh re-reads the new row (InvalidRequestError if it is gone),
\* then the tokens are returned.
LoginReturn(p) ==
    /\ login[p].pc = "refresh"
    /\ IF \E r \in refresh_tokens : r.id = p
       THEN login' = [login EXCEPT ![p].pc = "done", ![p].outcome = "Tokens"]
       ELSE login' = [login EXCEPT ![p].pc = "done",
                                   ![p].outcome = "InvalidRequestError"]
    /\ UNCHANGED <<now, users, refresh_tokens, reg, rot, gate>>
    /\ UNCHANGED orderVars

\* ----------------------------------------------------------------- refresh
\* As IsRefreshType, the type not looked at.
IsRefreshTypeAny(payload) == TRUE

\* As IsRefreshType, the comparison inverted.
IsRefreshTypeInverted(payload) == payload.type # "refresh"

\* refresh_access_token, line 140: decoded.get("type") == "refresh".
IsRefreshType(payload) == payload.type = "refresh"

\* refresh_access_token, lines 136-150 and 173-178: decode, the token type,
\* the select of the user.
RotateDecode(q, token) ==
    /\ rot[q].pc = "idle"
    /\ rot' = [rot EXCEPT ![q] =
         IF ~JwtDecode(token, now).ok
         THEN [IdleRot EXCEPT !.pc = "done", !.token = token,
                              !.reason = JwtDecode(token, now).err]
         ELSE IF ~IsRefreshType(JwtDecode(token, now).payload)
         THEN [IdleRot EXCEPT !.pc = "done", !.token = token,
                              !.reason = "type"]
         ELSE IF UserById(JwtDecode(token, now).payload.sub) = NoUser
         THEN [IdleRot EXCEPT !.pc = "done", !.token = token,
                              !.reason = "user"]
         ELSE [IdleRot EXCEPT !.pc = "stored", !.token = token,
                              !.user = UserById(JwtDecode(token, now).payload.sub)]]
    /\ UNCHANGED <<now, users, refresh_tokens, reg, login, gate>>
    /\ UNCHANGED orderVars

\* As RotateStored, the stored row consumed by the exchange.
RotateStoredConsumes(q) ==
    /\ rot[q].pc = "stored"
    /\ rot' = [rot EXCEPT ![q].pc = "expiry",
                          ![q].entry = RefreshByToken(rot[q].token)]
    /\ refresh_tokens' = RefreshDelete(RefreshByToken(rot[q].token))
    /\ UNCHANGED <<now, users, reg, login, gate>>
    /\ UNCHANGED orderVars

\* refresh_access_token, lines 153-155: the awaited select of the stored row
\* by token string.  The coroutine resumes in a later step, so requests that
\* commit and the clock can move between this read and what is done with it.
RotateStored(q) ==
    /\ rot[q].pc = "stored"
    /\ rot' = [rot EXCEPT ![q].pc = "expiry",
                          ![q].entry = RefreshByToken(rot[q].token)]
    /\ UNCHANGED <<now, users, refresh_tokens, reg, login, gate>>
    /\ UNCHANGED orderVars

\* refresh_access_token, lines 156-171, on the row read before: none, None;
\* its expiry against the clock (line 162); else the new access token, made
\* with a later reading of the clock (t2, line 66 through line 169).
RotateIssue(q) ==
    /\ rot[q].pc = "expiry"
    /\ IF rot[q].entry = NoRow
       THEN /\ rot' = [rot EXCEPT ![q].pc = "done", ![q].reason = "stored"]
            /\ now' = now
       ELSE IF rot[q].entry.expires_at < now
       THEN /\ rot' = [rot EXCEPT ![q].pc = "delete"]
            /\ now' = now
       ELSE \E t2 \in Instants :
            /\ now <= t2
            /\ rot' = [rot EXCEPT
                    ![q].pc = "done",
                    ![q].result = create_access_token(
                        rot[q].user.id, rot[q].user.email, AccessLifeSec,
                        FALSE, <<"refresh", q, "access">>, t2)]
            /\ now' = t2
    /\ UNCHANGED <<users, refresh_tokens, reg, login, gate>>
    /\ UNCHANGED orderVars

\* refresh_access_token, lines 163-166: delete the expired row, commit, None.
RotateDeleteExpired(q) ==
    /\ rot[q].pc = "delete"
    /\ refresh_tokens' = RefreshDelete(rot[q].entry)
    /\ rot' = [rot EXCEPT ![q].pc = "done", ![q].reason = "expired"]
    /\ UNCHANGED <<now, users, reg, login, gate>>
    /\ UNCHANGED orderVars

\* -------------------------------------------------------------------- gate
\* get_current_user, lines 21-50: the user, or 401.
get_current_user(token, t) ==
    IF decode_token(token, t) = NoPayload
    THEN [token |-> token, status |-> "Invalid token", user |-> NoUser]
    ELSE IF decode_token(token, t).sub = 0
    THEN [token |-> token, status |-> "Invalid token payload", user |-> NoUser]
    ELSE IF UserById(decode_token(token, t).sub) = NoUser
    THEN [token |-> token, status |-> "User not found", user |-> NoUser]
    ELSE [token |-> token, status |-> "ok",
          user |-> UserById(decode_token(token, t).sub)]

\* A request with a bearer token reaches get_current_user.
Gate(token) ==
    /\ gate' = get_current_user(token, now)
    /\ UNCHANGED <<now, users, refresh_tokens, reg, login, rot>>
    /\ UNCHANGED orderVars

\* The tokens a client can present: those delivered, or a forged one.
Presentable == Delivered \cup {ForgedToken}

\* ------------------------------------------------------------------ orders
Products == {"Widget"}
Amounts == {999}

\* The row create_order builds (id: uuid4, one per request).
NewOrderRow(c, user_id, product_name, amount) ==
    [id |-> c, user_id |-> user_id, product_name |-> product_name,
     amount |-> amount, status |-> "PENDING"]

\* session.get(Order, id) / a re-read of the row by primary key.
OrderById(id) == IF id \in DOMAIN orders THEN orders[id] ELSE NoOrder

\* create_order, services lines 21-30: add the PENDING order and commit.
CreateInsert(c, user_id, product_name, amount) ==
    /\ create[c].pc = "idle"
    /\ orders' = orders @@ (c :> NewOrderRow(c, user_id, product_name, amount))
    /\ create' = [create EXCEPT ![c].pc = "refresh", ![c].user_id = user_id,
                                ![c].id = c]
    /\ UNCHANGED <<cancel, worker, listed>>
    /\ UNCHANGED authVars

\* create_order, services lines 31-34 and routes lines 27-29: session.refresh
\* re-reads the row, the job is enqueued, the order is returned.
CreateReturn(c) ==
    /\ create[c].pc = "refresh"
    /\ create' = [create EXCEPT ![c].pc = "done", ![c].result = OrderById(c)]
    /\ worker' = worker @@ (c :> [pc |-> "queued", loaded |-> ""])
    /\ UNCHANGED <<orders, cancel, listed>>
    /\ UNCHANGED authVars

\* The select without the owner condition.
OrderOfUserAnyOwner(order_id, user_id) == OrderById(order_id)

\* select(Order).where(Order.id == order_id, Order.user_id == user.id)
OrderOfUser(order_id, user_id) ==
    IF order_id \in DOMAIN orders
    THEN IF orders[order_id].user_id = user_id THEN orders[order_id] ELSE NoOrder
    ELSE NoOrder

\* cancel_order without the status check.
CanCancelAny(order) == TRUE

\* cancel_order, line 64: only a PENDING order is cancelled.
CanCancel(order) == order.status = "PENDING"

\* cancel_order, lines 55-66: the select, 404 if no such order of the user,
\* 400 if the order read is not PENDING.
CancelSelect(k, order_id, user_id) ==
    /\ cancel[k].pc = "idle"
    /\ cancel' = [cancel EXCEPT ![k] =
         IF OrderOfUser(order_id, user_id) = NoOrder
         THEN [IdleCancel EXCEPT !.pc = "done", !.order_id = order_id,
                                 !.user_id = user_id, !.outcome = "NotFound"]
         ELSE IF ~CanCancel(OrderOfUser(order_id, user_id))
         THEN [IdleCancel EXCEPT !.pc = "done", !.order_id = order_id,
                                 !.user_id = user_id,
                                 !.outcome = "InvalidTransition"]
         ELSE [IdleCancel EXCEPT !.pc = "commit", !.order_id = order_id,
                                 !.user_id = user_id]]
    /\ UNCHANGED <<orders, create, worker, listed>>
    /\ UNCHANGED authVars

\* The flush of an attribute set on a loaded row: UPDATE orders SET status
\* WHERE id, emitted only if the value differs from the one loaded.
OrderUpdate(id, loaded, status) ==
    IF status = loaded THEN orders
    ELSE [orders EXCEPT ![id].status = status]

\* cancel_order, lines 68-69: order.status = CANCELLED, commit.
CancelCommit(k) ==
    /\ cancel[k].pc = "commit"
    /\ orders' = OrderUpdate(cancel[k].order_id, "PENDING", "CANCELLED")
    /\ cancel' = [cancel EXCEPT ![k].pc = "refresh"]
    /\ UNCHANGED <<create, worker, listed>>
    /\ UNCHANGED authVars

\* cancel_order, lines 70-73: session.refresh re-reads the row; it is returned.
CancelReturn(k) ==
    /\ cancel[k].pc = "refresh"
    /\ cancel' = [cancel EXCEPT ![k].pc = "done", ![k].outcome = "Order",
                                ![k].result = OrderById(cancel[k].order_id)]
    /\ UNCHANGED <<orders, create, worker, listed>>
    /\ UNCHANGED authVars

\* process_order, lines 34-37: the job loads the order; no order, no work.
WorkerGet(o) ==
    /\ worker[o].pc = "queued"
    /\ worker' = [worker EXCEPT ![o] =
         IF OrderById(o) = NoOrder
         THEN [pc |-> "done", loaded |-> ""]
         ELSE [pc |-> "processing", loaded |-> OrderById(o).status]]
    /\ UNCHANGED <<orders, create, cancel, listed>>
    /\ UNCHANGED authVars

\* As WorkerProcessing, the stages taken out of order.
WorkerProcessingSkipsStage(o) ==
    /\ worker[o].pc = "processing"
    /\ orders' = OrderUpdate(o, worker[o].loaded, "COMPLETED")
    /\ worker' = [worker EXCEPT ![o] = [pc |-> "completed", loaded |-> "COMPLETED"]]
    /\ UNCHANGED <<create, cancel, listed>>
    /\ UNCHANGED authVars

\* process_order, lines 44-48, first stage: status = PROCESSING, commit.
WorkerProcessing(o) ==
    /\ worker[o].pc = "processing"
    /\ orders' = OrderUpdate(o, worker[o].loaded, "PROCESSING")
    /\ worker' = [worker EXCEPT ![o] = [pc |-> "completed", loaded |-> "PROCESSING"]]
    /\ UNCHANGED <<create, cancel, listed>>
    /\ UNCHANGED authVars

\* process_order, lines 44-51, second stage: status = COMPLETED, commit.
WorkerCompleted(o) ==
    /\ worker[o].pc = "completed"
    /\ orders' = OrderUpdate(o, worker[o].loaded, "COMPLETED")
    /\ worker' = [worker EXCEPT ![o] = [pc |-> "done", loaded |-> "COMPLETED"]]
    /\ UNCHANGED <<create, cancel, listed>>
    /\ UNCHANGED authVars

\* --------------------------------------------------------------- my-orders
\* models.STATUS, and the status query parameter of /my-orders ("": none).
STATUS == {"PENDING", "PROCESSING", "COMPLETED", "CANCELLED"}
Filters == {""} \cup STATUS

\* As get_orders_for_user, the owner condition left out of the select.
get_orders_for_userAnyOwner(user_id, status) ==
    IF status = ""
    THEN {orders[o] : o \in DOMAIN orders}
    ELSE {orders[o] : o \in {x \in DOMAIN orders : orders[x].status = status}}

\* get_orders_for_user, lines 40-45: select(Order).where(user_id == user.id),
\* and .where(status == status) if a status is given.  The rows come back in
\* the order the database chooses; the result is kept as the set of rows.
get_orders_for_user(user_id, status) ==
    IF status = ""
    THEN {orders[o] : o \in {x \in DOMAIN orders : orders[x].user_id = user_id}}
    ELSE {orders[o] : o \in {x \in DOMAIN orders :
                                /\ orders[x].user_id = user_id
                                /\ orders[x].status = status}}

\* The commits to the orders table so far: create_order's insert,
\* cancel_order's update, and the stages the jobs have committed.
Writes ==
    Cardinality({c \in CreateProcs : create[c].pc # "idle"})
    + Cardinality({k \in CancelProcs :
                      cancel[k].pc = "refresh" \/ cancel[k].outcome = "Order"})
    + Cardinality({o \in DOMAIN worker : worker[o].loaded # ""
                                          /\ worker[o].pc \in {"completed", "done"}})
    + Cardinality({o \in DOMAIN worker : worker[o].loaded = "COMPLETED"})

\* my_orders, routes lines 31-41: the authenticated user's orders.
List(user_id, status) ==
    /\ listed.n < MaxList
    /\ listed' = [n |-> listed.n + 1, user_id |-> user_id, status |-> status,
                  writes |-> Writes,
                  result |-> get_orders_for_user(user_id, status)]
    /\ UNCHANGED <<orders, create, cancel, worker>>
    /\ UNCHANGED authVars

\* Requests are numbered in arrival order.
InOrder(procs, i) == IF i = 1 THEN TRUE ELSE procs[i - 1].pc # "idle"

\* The session requests: login, refresh, the gate, and the passing of time.
Next ==
    \/ Tick
    \/ \E p \in LoginProcs, email \in Emails, password \in Passwords :
            InOrder(login, p) /\ LoginAuthenticate(p, email, password)
    \/ \E p \in LoginProcs : LoginSelectExisting(p)
    \/ \E p \in LoginProcs : LoginDeleteOld(p)
    \/ \E p \in LoginProcs : LoginInsert(p)
    \/ \E p \in LoginProcs : LoginReturn(p)
    \/ \E q \in RotProcs, token \in Presentable :
            InOrder(rot, q) /\ RotateDecode(q, token)
    \/ \E q \in RotProcs : RotateStored(q)
    \/ \E q \in RotProcs : RotateIssue(q)
    \/ \E q \in RotProcs : RotateDeleteExpired(q)

\* The store after two users registered.
Registered ==
    {[id |-> 1, email |-> "a@x.io", name |-> "ann",
      password |-> hash_password("pw1", 1)],
     [id |-> 2, email |-> "b@x.io", name |-> "bob",
      password |-> hash_password("pw2", 2)]}

InitRegistered ==
    /\ now = 0
    /\ users = Registered
    /\ refresh_tokens = {}
    /\ reg = [r \in RegProcs |-> IdleReg]
    /\ login = [p \in LoginProcs |-> IdleLogin]
    /\ rot = [q \in RotProcs |-> IdleRot]
    /\ gate = NoGate
    /\ OrdersIdle

Spec == InitRegistered /\ [][Next]_vars

\* The session requests, of which one is a refresh request, and the requests
\* that present a bearer token.
NextGate ==
    \/ Tick
    \/ \E p \in LoginProcs, email \in Emails, password \in Passwords :
            InOrder(login, p) /\ LoginAuthenticate(p, email, password)
    \/ \E p \in LoginProcs : LoginSelectExisting(p)
    \/ \E p \in LoginProcs : LoginDeleteOld(p)
    \/ \E p \in LoginProcs : LoginInsert(p)
    \/ \E p \in LoginProcs : LoginReturn(p)
    \/ \E token \in Presentable : RotateDecode(1, token)
    \/ RotateStored(1)
    \/ RotateIssue(1)
    \/ RotateDeleteExpired(1)
    \/ \E token \in Presentable : Gate(token)

GateSpec == InitRegistered /\ [][NextGate]_vars

\* The registration requests, from the empty store.
NextRegister ==
    \/ \E r \in RegProcs, name \in Names, email \in Emails, password \in Passwords :
            InOrder(reg, r) /\ RegisterCheck(r, name, email, password)
    \/ \E r \in RegProcs : RegisterInsert(r)
    \/ \E r \in RegProcs : RegisterReturn(r)

RegisterSpec == Init /\ [][NextRegister]_vars

\* The registration and login requests, from the empty store.
NextAuth ==
    \/ \E r \in RegProcs, name \in Names, email \in Emails, password \in Passwords :
            InOrder(reg, r) /\ RegisterCheck(r, name, email, password)
    \/ \E r \in RegProcs : RegisterInsert(r)
    \/ \E r \in RegProcs : RegisterReturn(r)
    \/ \E p \in LoginProcs, email \in Emails, password \in Passwords :
            InOrder(login, p) /\ LoginAuthenticate(p, email, password)
    \/ \E p \in LoginProcs : LoginSelectExisting(p)
    \/ \E p \in LoginProcs : LoginDeleteOld(p)
    \/ \E p \in LoginProcs : LoginInsert(p)
    \/ \E p \in LoginProcs : LoginReturn(p)

AuthSpec == Init /\ [][NextAuth]_vars

\* The refresh-token row an earlier login of the first user left.
EarlierLogin == MaxLogin + 1
StoredBefore ==
    [id |-> EarlierLogin,
     token |-> create_access_token(1, "a@x.io", RefreshLifeSec, TRUE,
                                   <<"login", EarlierLogin, "refresh">>, 0),
     user_id |-> 1,
     expires_at |-> RefreshLifeSec * TicksPerSec]

\* The store after two users registered and one of them logged in.
InitRelogin ==
    /\ now = 0
    /\ users = Registered
    /\ refresh_tokens = {StoredBefore}
    /\ reg = [r \in RegProcs |-> IdleReg]
    /\ login = [p \in LoginProcs |-> IdleLogin]
    /\ rot = [q \in RotProcs |-> IdleRot]
    /\ gate = NoGate
    /\ OrdersIdle

\* The login requests of users of whom one has a refresh token stored.
NextRelogin ==
    \/ \E p \in LoginProcs, email \in Emails, password \in Passwords :
            InOrder(login, p) /\ LoginAuthenticate(p, email, password)
    \/ \E p \in LoginProcs : LoginSelectExisting(p)
    \/ \E p \in LoginProcs : LoginDeleteOld(p)
    \/ \E p \in LoginProcs : LoginInsert(p)
    \/ \E p \in LoginProcs : LoginReturn(p)

ReloginSpec == InitRelogin /\ [][NextRelogin]_vars

\* The order requests of authenticated users, and the worker.
NextOrders ==
    \/ \E c \in CreateProcs, u \in Registered, product_name \in Products,
          amount \in Amounts :
            InOrder(create, c) /\ CreateInsert(c, u.id, product_name, amount)
    \/ \E c \in CreateProcs : CreateReturn(c)
    \/ \E k \in CancelProcs, order_id \in CreateProcs, u \in Registered :
            InOrder(cancel, k) /\ CancelSelect(k, order_id, u.id)
    \/ \E k \in CancelProcs : CancelCommit(k)
    \/ \E k \in CancelProcs : CancelReturn(k)
    \/ \E o \in DOMAIN worker : WorkerGet(o)
    \/ \E o \in DOMAIN worker : WorkerProcessing(o)
    \/ \E o \in DOMAIN worker : WorkerCompleted(o)

OrderSpec == InitRegistered /\ [][NextOrders]_vars

\* The creation of orders, the worker, and the listing of a user's orders.
NextList ==
    \/ \E c \in CreateProcs, u \in Registered, product_name \in Products,
          amount \in Amounts :
            InOrder(create, c) /\ CreateInsert(c, u.id, product_name, amount)
    \/ \E c \in CreateProcs : CreateReturn(c)
    \/ \E o \in DOMAIN worker : WorkerGet(o)
    \/ \E o \in DOMAIN worker : WorkerProcessing(o)
    \/ \E o \in DOMAIN worker : WorkerCompleted(o)
    \/ \E u \in Registered, status \in Filters : List(u.id, status)

ListSpec == InitRegistered /\ [][NextList]_vars

\* The order requests when what has started runs on: the route handler
\* goes on from the commit to the re-read and the enqueue, and the worker
\* executes every job in the queue through its stages.
FairOrderSpec ==
    /\ OrderSpec
    /\ \A c \in CreateProcs : WF_vars(CreateReturn(c))
    /\ \A o \in CreateProcs : WF_vars(o \in DOMAIN worker /\ WorkerGet(o))
    /\ \A o \in CreateProcs : WF_vars(o \in DOMAIN worker /\ WorkerProcessing(o))
    /\ \A o \in CreateProcs : WF_vars(o \in DOMAIN worker /\ WorkerCompleted(o))

\* ------------------------------------------------------------------ claims
\* C1: in every reachable state the refresh_tokens store holds at most one
\* row per user, also when two logins of the same user run concurrently.
AtMostOneRefreshTokenPerUser ==
    \A r1 \in refresh_tokens, r2 \in refresh_tokens :
        r1.user_id = r2.user_id => r1 = r2

\* Two logins of one user both found no existing row and both went on to
\* insert theirs.
ConcurrentLoginsBothInsert ==
    \E p1 \in LoginProcs, p2 \in LoginProcs :
        /\ p1 # p2
        /\ login[p1].user # NoUser
        /\ login[p1].user = login[p2].user
        /\ login[p1].old = NoRow /\ login[p2].old = NoRow
        /\ login[p1].pc = "done" /\ login[p2].pc = "done"

\* C2: once an order's stored status is COMPLETED or CANCELLED, no step of
\* cancel_order or of the worker changes it.
TerminalStatusStays ==
    [][\A o \in DOMAIN orders :
          orders[o].status \in {"COMPLETED", "CANCELLED"}
              => orders'[o].status = orders[o].status]_vars

\* C3: no order's stored status ever changes from PROCESSING to CANCELLED.
NeverProcessingToCancelled ==
    [][\A o \in DOMAIN orders :
          ~(orders[o].status = "PROCESSING" /\ orders'[o].status = "CANCELLED")]_vars

\* C4: get_current_user accepts only tokens whose type is access.
GateRejectsNonAccess ==
    gate.status = "ok" => gate.token.payload.type = "access"

\* C5: a refresh request that presents a validly signed token whose type is
\* not refresh ends at the type check with no access token (an unexpired one
\* for that reason alone), and none of its steps changes the store.
RotateRejectsNonRefresh ==
    /\ [](\A q \in RotProcs :
            (/\ rot[q].pc # "idle"
             /\ rot[q].token.key = JWT_SECRET
             /\ rot[q].token.payload.type # "refresh")
            => /\ rot[q].pc = "done"
               /\ rot[q].result = NoToken
               /\ rot[q].reason \in {"type", "ExpiredSignatureError"}
               /\ (rot[q].token.payload.exp * TicksPerSec > now
                       => rot[q].reason = "type"))
    /\ [][\A q \in RotProcs :
            (rot'[q] # rot[q] /\ rot'[q].token.payload.type # "refresh")
                => UNCHANGED <<users, refresh_tokens>>]_vars

\* A refresh request presented an access token that a login delivered and was
\* turned down for its type.
AccessTokenPresentedToRotate ==
    \E q \in RotProcs, p \in LoginProcs :
        /\ login[p].outcome = "Tokens"
        /\ rot[q].token = login[p].access
        /\ rot[q].reason = "type"

\* No row of refresh_tokens stores this token string.
NoMatchingRow(token) == \A r \in refresh_tokens : r.token # token

\* A later successful login read the row of this token as the existing one
\* and replaced it.
Superseded(token) ==
    \E p \in LoginProcs : login[p].outcome = "Tokens" /\ login[p].old.token = token

\* C6: a refresh request whose select of the stored row finds no row for the
\* presented token string is rejected for want of that row, whatever the
\* token's signature and expiry, and only a request that found a row returns
\* an access token; the refresh token of a login that a later successful
\* login replaced has no row from then on, so every refresh request that
\* reads the table after the replacement turns it down.  (A request that had
\* read the row before it was replaced is not a later one.)
StoredRowDecides ==
    /\ [](\A p \in LoginProcs :
            (login[p].refresh # NoToken /\ Superseded(login[p].refresh))
                => NoMatchingRow(login[p].refresh))
    /\ [][\A p \in LoginProcs :
            (login[p].refresh # NoToken /\ Superseded(login[p].refresh))
                => /\ login'[p].refresh = login[p].refresh
                   /\ Superseded(login[p].refresh)']_vars
    /\ [][\A q \in RotProcs :
            (rot[q].pc = "stored" /\ rot'[q] # rot[q] /\ NoMatchingRow(rot[q].token))
                => /\ rot'[q].pc = "expiry"
                   /\ rot'[q].entry = NoRow
                   /\ rot'[q].result = NoToken]_vars
    /\ [][\A q \in RotProcs :
            (rot[q].pc = "expiry" /\ rot'[q] # rot[q] /\ rot[q].entry = NoRow)
                => /\ rot'[q].pc = "done"
                   /\ rot'[q].result = NoToken
                   /\ rot'[q].reason = "stored"]_vars
    /\ [](\A q \in RotProcs :
            rot[q].result # NoToken
                => rot[q].entry # NoRow /\ rot[q].entry.token = rot[q].token)

\* The refresh token of a first login was presented after a second login
\* replaced its row, and was turned down for want of a stored row.
SupersededTokenRejected ==
    \E q \in RotProcs, p \in LoginProcs :
        /\ login[p].outcome = "Tokens"
        /\ rot[q].token = login[p].refresh
        /\ Superseded(login[p].refresh)
        /\ rot[q].entry = NoRow
        /\ rot[q].pc = "done"
        /\ rot[q].reason = "stored"

\* C7: when a refresh request returns, the presented token has been rejected
\* if its stored row's expires_at is in the past, and that row is gone: no
\* row of that token which the request's last step found expired is left.
ExpiredRowRemovedByRotate ==
    [][\A q \in RotProcs :
          (rot[q].pc # "done" /\ rot'[q].pc = "done")
              => \A r \in refresh_tokens' :
                    r.token = rot'[q].token => ~(r.expires_at < now)]_vars

\* C8: every login ends with tokens issued or with InvalidCredentials, and a
\* login with the correct password of an existing user ends with tokens.
LoginIssuesTokensOrInvalidCredentials ==
    \A p \in LoginProcs :
        login[p].pc = "done"
            => /\ login[p].outcome \in {"Tokens", "InvalidCredentials"}
               /\ (authenticate_user(login[p].email, login[p].password) # NoUser
                       => login[p].outcome = "Tokens")

\* C9: a register request whose email already belongs to a stored user ends
\* with DuplicateEmail in the step that checks it, the users store unchanged;
\* no row is ever stored for that request.
DuplicateEmailRejected ==
    /\ [](\A r \in RegProcs :
            reg[r].outcome = "DuplicateEmail" => \A u \in users : u.id # r)
    /\ [][\A r \in RegProcs :
            (/\ reg[r].pc = "idle"
             /\ reg'[r].pc # "idle"
             /\ \E u \in users : u.email = reg'[r].email)
            => /\ reg'[r].pc = "done"
               /\ reg'[r].outcome = "DuplicateEmail"
               /\ users' = users]_vars

\* A register request with a stored user's email, and a different name and
\* password, was turned down.
DuplicateEmailSeen ==
    \E r \in RegProcs, u \in users :
        /\ reg[r].outcome = "DuplicateEmail"
        /\ u.email = reg[r].email
        /\ u.name # reg[r].name
        /\ ~verify_password(reg[r].password, u.password)

\* C10: of register requests with the same email at most one row is stored,
\* and every request ends with a User or with DuplicateEmail.
RegisterRaceRecovered ==
    /\ \A u1 \in users, u2 \in users : u1.email = u2.email => u1 = u2
    /\ \A r \in RegProcs :
          reg[r].pc = "done" => reg[r].outcome \in {"User", "DuplicateEmail"}

\* C11: a cancel_order whose id names no order, or an order of another user,
\* ends at the select with NotFound whatever the order's status, with the
\* same response in both cases, and leaves every order as it was.
NonOwnerCancelNotFound ==
    [][\A k \in CancelProcs :
          (/\ cancel[k].pc = "idle"
           /\ cancel'[k].pc # "idle"
           /\ IF cancel'[k].order_id \in DOMAIN orders
              THEN orders[cancel'[k].order_id].user_id # cancel'[k].user_id
              ELSE TRUE)
          => /\ cancel'[k] =
                  [IdleCancel EXCEPT !.pc = "done",
                                     !.order_id = cancel'[k].order_id,
                                     !.user_id = cancel'[k].user_id,
                                     !.outcome = "NotFound"]
             /\ orders' = orders]_vars

\* A user asked to cancel another user's order that the worker had already
\* moved on, and a user asked to cancel an id that names no order.
NonOwnerCancelSeen ==
    \E k1 \in CancelProcs, k2 \in CancelProcs :
        /\ cancel[k1].outcome = "NotFound"
        /\ cancel[k1].order_id \in DOMAIN orders
        /\ orders[cancel[k1].order_id].user_id # cancel[k1].user_id
        /\ orders[cancel[k1].order_id].status = "PROCESSING"
        /\ cancel[k2].outcome = "NotFound"
        /\ cancel[k2].order_id \notin DOMAIN orders

\* C12: a cancel_order of the owner that finds its order PROCESSING, COMPLETED
\* or CANCELLED, or that comes after another cancel_order of the same order
\* returned it cancelled, ends at the select with InvalidTransition and
\* leaves every order's status as it was.
OwnerCancelNonPendingRejected ==
    [][\A k \in CancelProcs :
          (/\ cancel[k].pc = "idle"
           /\ cancel'[k].pc # "idle"
           /\ cancel'[k].order_id \in DOMAIN orders
           /\ orders[cancel'[k].order_id].user_id = cancel'[k].user_id
           /\ \/ orders[cancel'[k].order_id].status
                    \in {"PROCESSING", "COMPLETED", "CANCELLED"}
              \/ \E k2 \in CancelProcs :
                    /\ cancel[k2].order_id = cancel'[k].order_id
                    /\ cancel[k2].outcome = "Order")
          => /\ cancel'[k] =
                  [IdleCancel EXCEPT !.pc = "done",
                                     !.order_id = cancel'[k].order_id,
                                     !.user_id = cancel'[k].user_id,
                                     !.outcome = "InvalidTransition"]
             /\ orders' = orders]_vars

\* An order was cancelled before its job started, and a second cancel_order
\* of the owner on it was refused.
SecondCancelRefused ==
    \E k1 \in CancelProcs, k2 \in CancelProcs :
        /\ k1 < k2
        /\ cancel[k1].outcome = "Order"
        /\ cancel[k2].outcome = "InvalidTransition"
        /\ cancel[k2].order_id = cancel[k1].order_id
        /\ cancel[k2].user_id = cancel[k1].user_id
        /\ orders[cancel[k1].order_id].status = "CANCELLED"
        /\ IF cancel[k1].order_id \in DOMAIN worker
           THEN worker[cancel[k1].order_id].pc = "queued"
           ELSE TRUE

\* C13: at the step where cancel_order returns successfully, the order it
\* returns and the stored order both have status CANCELLED.
CancelReturnsCancelled ==
    [][\A k \in CancelProcs :
          (/\ cancel[k].pc # "done"
           /\ cancel'[k].pc = "done"
           /\ cancel'[k].outcome = "Order")
          => /\ cancel'[k].result.status = "CANCELLED"
             /\ orders'[cancel'[k].order_id].status = "CANCELLED"]_vars

\* C14: a refresh request that presents the refresh token a successful login
\* returned, while that token is unexpired and its row is still stored and
\* unexpired, ends with an access token of type access for the login's user;
\* and get_current_user, given that access token before it expires, accepts
\* it and resolves it to that user.
RotateAfterLoginAccepted ==
    \A p \in LoginProcs, q \in RotProcs :
        (/\ login[p].outcome = "Tokens"
         /\ rot[q].token = login[p].refresh
         /\ rot[q].pc = "done")
        => /\ (/\ login[p].refresh.payload.exp * TicksPerSec > now
               /\ \E r \in refresh_tokens :
                      r.token = login[p].refresh /\ r.expires_at >= now)
              => /\ rot[q].result # NoToken
                 /\ rot[q].result.key = JWT_SECRET
                 /\ rot[q].result.payload.type = "access"
                 /\ rot[q].result.payload.sub = login[p].user.id
           /\ (/\ rot[q].result # NoToken
               /\ gate.token = rot[q].result
               /\ rot[q].result.payload.exp * TicksPerSec > now)
              => /\ gate.status = "ok"
                 /\ gate.user = login[p].user

\* A login's refresh token was exchanged while its row was stored, and the
\* access token that came back was presented to get_current_user.
RotatedAccessTokenAtGate ==
    \E p \in LoginProcs, q \in RotProcs :
        /\ login[p].outcome = "Tokens"
        /\ rot[q].token = login[p].refresh
        /\ rot[q].result # NoToken
        /\ \E r \in refresh_tokens : r.token = login[p].refresh
        /\ gate.token = rot[q].result
        /\ gate.status = "ok"
        /\ gate.user = login[p].user

\* C15: once register has stored a user under an email, a login that names
\* that email is authenticated as that user if it gives the registered
\* password, and is authenticated as no user if it gives any other password.
RegisterThenAuthenticate ==
    [][\A p \in LoginProcs, r \in RegProcs :
          (/\ login[p].pc = "idle"
           /\ login'[p].pc # "idle"
           /\ reg[r].outcome = "User"
           /\ reg[r].email = login'[p].email)
          => IF login'[p].password = reg[r].password
             THEN /\ login'[p].user \in users
                  /\ login'[p].user.id = r
                  /\ login'[p].user.email = reg[r].email
                  /\ login'[p].user.name = reg[r].name
                  /\ login'[p].outcome # "InvalidCredentials"
             ELSE /\ login'[p].user = NoUser
                  /\ login'[p].outcome = "InvalidCredentials"]_vars

\* After a registration, a login with the registered password was
\* authenticated as the new user and a later one with another password was
\* not.
RegisteredUserAuthenticated ==
    \E r \in RegProcs, p1 \in LoginProcs, p2 \in LoginProcs :
        /\ p1 < p2
        /\ reg[r].outcome = "User"
        /\ login[p1].email = reg[r].email
        /\ login[p1].password = reg[r].password
        /\ login[p1].user.id = r
        /\ login[p2].email = reg[r].email
        /\ login[p2].password # reg[r].password
        /\ login[p2].outcome = "InvalidCredentials"

\* C16: a login that names an email and password under which no user is
\* stored, be the email unknown or the password wrong, ends at once with
\* the one response InvalidCredentials, which carries nothing but that, and
\* leaves the users and refresh_tokens tables as they were.
FailedLoginUniform ==
    [][\A p \in LoginProcs :
          (/\ login[p].pc = "idle"
           /\ login'[p].pc # "idle"
           /\ ~\E r \in RegProcs :
                  /\ \E u \in users : u.id = r
                  /\ reg[r].email = login'[p].email
                  /\ reg[r].password = login'[p].password)
          => /\ login'[p] =
                  [IdleLogin EXCEPT !.pc = "done",
                                    !.email = login'[p].email,
                                    !.password = login'[p].password,
                                    !.outcome = "InvalidCredentials"]
             /\ users' = users
             /\ refresh_tokens' = refresh_tokens]_vars

\* One login named an email no user has, another named a registered email
\* with a password other than the registered one; both got the same response.
BothCausesOfFailureSeen ==
    \E p1 \in LoginProcs, p2 \in LoginProcs, r \in RegProcs :
        /\ login[p1].pc = "done"
        /\ \A u \in users : u.email # login[p1].email
        /\ login[p2].pc = "done"
        /\ reg[r].outcome = "User"
        /\ login[p2].email = reg[r].email
        /\ login[p2].password # reg[r].password
        /\ login[p1].outcome = "InvalidCredentials"
        /\ login[p2].outcome = login[p1].outcome

\* C17: the access token of a successful login decodes to type access, its
\* refresh token decodes to type refresh, both have the authenticated user's
\* id as sub, and the refresh token lives longer than the access token.
LoginTokenKinds ==
    \A p \in LoginProcs :
        login[p].outcome = "Tokens"
        => /\ JwtDecode(login[p].access,
                        login[p].access.payload.iat * TicksPerSec).ok
           /\ JwtDecode(login[p].refresh,
                        login[p].refresh.payload.iat * TicksPerSec).ok
           /\ decode_token(login[p].access,
                           login[p].access.payload.iat * TicksPerSec).type = "access"
           /\ decode_token(login[p].refresh,
                           login[p].refresh.payload.iat * TicksPerSec).type = "refresh"
           /\ login[p].user \in users
           /\ login[p].user.email = login[p].email
           /\ login[p].access.payload.sub = login[p].user.id
           /\ login[p].refresh.payload.sub = login[p].user.id
           /\ login[p].refresh.payload.exp - login[p].refresh.payload.iat
                > login[p].access.payload.exp - login[p].access.payload.iat
           /\ login[p].refresh.payload.exp > login[p].access.payload.exp

\* A login returned its two tokens.
LoginReturnedTokens ==
    \E p \in LoginProcs :
        /\ login[p].outcome = "Tokens"
        /\ login[p].access # NoToken
        /\ login[p].refresh # NoToken
        /\ \E r \in refresh_tokens : r.token = login[p].refresh

\* C18: every create_order that has returned gave back an order of the
\* calling user with status PENDING, and every enqueued job is for an order
\* that is stored and whose create_order has read its result.
CreateReturnsPending ==
    /\ \A c \in CreateProcs :
          create[c].pc = "done"
          => /\ create[c].result.id = create[c].id
             /\ create[c].result.user_id = create[c].user_id
             /\ create[c].result.status = "PENDING"
    /\ \A o \in DOMAIN worker :
          /\ o \in DOMAIN orders
          /\ create[o].pc = "done"

\* The stored status of order o, "" while the order does not exist.
StatusOf(o) == IF o \in DOMAIN orders THEN orders[o].status ELSE ""

\* C19: when the handlers and the enqueued jobs run on, every order that
\* exists is eventually COMPLETED unless it is cancelled; an order that was
\* not cancelled becomes COMPLETED from PROCESSING only; and every step that
\* writes PROCESSING or COMPLETED is a step of the order's job.
WorkerDrivesToCompleted ==
    /\ \A o \in CreateProcs :
          (o \in DOMAIN orders)
              ~> (StatusOf(o) = "COMPLETED" \/ StatusOf(o) = "CANCELLED")
    /\ [][\A o \in DOMAIN orders :
            (orders'[o].status = "COMPLETED" /\ orders[o].status # "COMPLETED")
            => orders[o].status \in {"PROCESSING", "CANCELLED"}]_vars
    /\ [][\A o \in DOMAIN orders :
            (/\ orders'[o].status \in {"PROCESSING", "COMPLETED"}
             /\ orders'[o].status # orders[o].status)
            => /\ o \in DOMAIN worker
               /\ worker'[o] # worker[o]
               /\ create' = create
               /\ cancel' = cancel]_vars

\* An order nobody asked to cancel was taken by its job through PROCESSING
\* to COMPLETED.
OrderCompletedByWorker ==
    \E o \in DOMAIN orders :
        /\ orders[o].status = "COMPLETED"
        /\ o \in DOMAIN worker
        /\ worker[o].pc = "done"
        /\ \A k \in CancelProcs : cancel[k].order_id # o

ListReturnsOwnOrders ==
    [][listed'.n = listed.n + 1
        => /\ \A o \in DOMAIN orders :
                 orders[o] \in listed'.result
                 <=> /\ orders[o].user_id = listed'.user_id
                     /\ listed'.status \in {"", orders[o].status}
           /\ \A row \in listed'.result :
                 /\ row.id \in DOMAIN orders
                 /\ row = orders[row.id]
                 /\ row.user_id = listed'.user_id
           /\ orders' = orders
           /\ users' = users
           /\ refresh_tokens' = refresh_tokens
           /\ (/\ listed.n > 0
               /\ listed.user_id = listed'.user_id
               /\ listed.status = listed'.status
               /\ listed.writes = listed'.writes)
              => listed'.result = listed.result]_vars

\* A second call, with a status filter, returned an order of the caller while
\* the other user had an order with that status in the store, nothing
\* committed since the call.
ListedTwiceWithFilter ==
    /\ listed.n = 2
    /\ listed.status # ""
    /\ listed.writes = Writes
    /\ listed.result # {}
    /\ \E o \in DOMAIN orders :
          orders[o].user_id # listed.user_id /\ orders[o].status = listed.status

\* C22: a call of get_current_user returns a user exactly when the token is
\* signed with the server's key, is not expired at the call, has a subject,
\* and a user with that id is stored, and then it returns that user; every
\* other call ends with one of the 401 responses and no user; no call
\* changes the users or refresh_tokens table.
GateAcceptsExactlyValidTokens ==
    [][gate' # gate
        => /\ gate'.status = "ok"
                <=> /\ gate'.token.key = JWT_SECRET
                    /\ gate'.token.payload.exp * TicksPerSec > now
                    /\ gate'.token.payload.sub # 0
                    /\ \E u \in users : u.id = gate'.token.payload.sub
           /\ gate'.status = "ok"
                => /\ gate'.user \in users
                   /\ gate'.user.id = gate'.token.payload.sub
           /\ gate'.status # "ok"
                => /\ gate'.user = NoUser
                   /\ gate'.status \in {"Invalid token", "Invalid token payload",
                                        "User not found"}
           /\ users' = users
           /\ refresh_tokens' = refresh_tokens]_vars

\* A token the server issued was presented after its expiry and refused.
ExpiredTokenRefusedAtGate ==
    /\ gate.token \in Delivered
    /\ gate.token.payload.exp * TicksPerSec <= now
    /\ gate.status = "Invalid token"

\* C23: a login that ended without returning tokens has removed no row from
\* the refresh_tokens table.
FailedLoginKeepsStoredToken ==
    \A p \in LoginProcs :
        (login[p].pc = "done" /\ login[p].outcome # "Tokens")
        => login[p].rowcount = 0

\* C24: every stored refresh-token row holds a token of the server whose
\* type is refresh and whose sub is the row's user_id, the id of a stored
\* user; and the access token of every successful refresh request has as sub
\* the user_id of the row the request matched.
StoredRowsMatchTheirToken ==
    /\ \A r \in refresh_tokens :
          /\ JwtDecode(r.token, r.token.payload.iat * TicksPerSec).ok
          /\ decode_token(r.token, r.token.payload.iat * TicksPerSec).type = "refresh"
          /\ decode_token(r.token, r.token.payload.iat * TicksPerSec).sub = r.user_id
          /\ \E u \in users : u.id = r.user_id
    /\ \A q \in RotProcs :
          rot[q].result # NoToken
          => /\ rot[q].entry # NoRow
             /\ rot[q].entry.token = rot[q].token
             /\ rot[q].result.payload.sub = rot[q].entry.user_id

\* A refresh request matched a stored row, which is still stored, and
\* returned an access token.
RotateMatchedStoredRow ==
    \E q \in RotProcs :
        /\ rot[q].result # NoToken
        /\ rot[q].entry \in refresh_tokens

====
